---- MODULE Spec2Model ----
(***************************************************************************)
(* Model of the Swift -> C# test-coverage tooling:                         *)
(*   detailed_method_mapping.py  (extraction, normalisation, matching,     *)
(*                                file-pair analysis, mapping report)      *)
(*   test_coverage_analysis.py   (categorisation, missing coverage,        *)
(*                                comprehensive report)                    *)
(* Strings are sequences of one-character strings, so that prefix, suffix  *)
(* and substring tests are computed and not assumed.                       *)
(***************************************************************************)
EXTENDS Integers, Sequences, FiniteSets, TLC

VARIABLES
    n_in, n_name, n_pc, n_k, n_pass, n_first,
    swift_methods, csharp_methods, analysis, matched_cs_methods, p_pc, p_i,
    content, is_swift, methods, match, method_body, e_pc, e_from,
    r_k, total_coverage_stats, overall, r_pc,
    swift_tests, csharp_tests, missing_coverage, report, c_pc, c_i

normVars == <<n_in, n_name, n_pc, n_k, n_pass, n_first>>
pairVars == <<swift_methods, csharp_methods, analysis, matched_cs_methods, p_pc, p_i>>

(***************************************************************************)
(* Strings                                                                 *)
(***************************************************************************)
UpperToLower ==
    ("A" :> "a") @@ ("B" :> "b") @@ ("C" :> "c") @@ ("D" :> "d") @@ ("E" :> "e") @@ ("F" :> "f") @@ ("G" :> "g") @@ ("H" :> "h") @@ ("I" :> "i") @@ ("J" :> "j") @@ ("K" :> "k") @@ ("L" :> "l") @@ ("M" :> "m") @@
    ("N" :> "n") @@ ("O" :> "o") @@ ("P" :> "p") @@ ("Q" :> "q") @@ ("R" :> "r") @@ ("S" :> "s") @@ ("T" :> "t") @@ ("U" :> "u") @@ ("V" :> "v") @@ ("W" :> "w") @@ ("X" :> "x") @@ ("Y" :> "y") @@ ("Z" :> "z")

\* str.lower() on one character
LowerChar(c) == IF c \in DOMAIN UpperToLower THEN UpperToLower[c] ELSE c

\* str.lower()
LowerName(s) == [i \in 1..Len(s) |-> LowerChar(s[i])]

\* str.startswith(p)
StartsWith(s, p) == Len(p) <= Len(s) /\ SubSeq(s, 1, Len(p)) = p

\* str.endswith(p)
EndsWith(s, p) == Len(p) <= Len(s) /\ SubSeq(s, Len(s) - Len(p) + 1, Len(s)) = p

\* the Python test  p in s  on strings
Contains(s, p) == \E k \in 0..(Len(s) - Len(p)) : SubSeq(s, k + 1, k + Len(p)) = p

Min(a, b) == IF a <= b THEN a ELSE b

Max(a, b) == IF a >= b THEN a ELSE b

\* the least element of a non-empty set of numbers
Least(S) == CHOOSE x \in S : \A y \in S : x <= y

RECURSIVE Concat(_)
Concat(ss) == IF ss = <<>> THEN <<>> ELSE Head(ss) \o Concat(Tail(ss))

RECURSIVE SeqsUpTo(_, _)
\* every sequence over S of length at most n
SeqsUpTo(S, n) ==
    IF n = 0 THEN {<<>>}
    ELSE LET shorter == SeqsUpTo(S, n - 1)
         IN  shorter \cup {Append(q, x) : q \in shorter, x \in S}

\* the sequences without a repeated element
Distinct(Q) == {q \in Q : \A a, b \in 1..Len(q) : a # b => q[a] # q[b]}

(***************************************************************************)
(* normalize_test_name                                                     *)
(***************************************************************************)
s_test == <<"t", "e", "s", "t">>

\* the suffix list of the for loop, in its order
Suffixes == <<<<"_", "t", "e", "s", "t">>, <<"t", "e", "s", "t">>, <<"_", "t", "e", "s", "t", "s">>, <<"t", "e", "s", "t", "s">>>>

\* if name.startswith('test'): name = name[4:]
StripTestPrefix(name) ==
    IF StartsWith(name, s_test) THEN SubSeq(name, Len(s_test) + 1, Len(name)) ELSE name

\* one iteration of the suffix loop: if name.endswith(suffix): name = name[:-len(suffix)]
StripSuffix(name, suffix) ==
    IF EndsWith(name, suffix) THEN SubSeq(name, 1, Len(name) - Len(suffix)) ELSE name

RECURSIVE StripSuffixesFrom(_, _)
\* the suffix loop from its k-th iteration on; it has no break
StripSuffixesFrom(name, k) ==
    IF k > Len(Suffixes) THEN name
    ELSE StripSuffixesFrom(StripSuffix(name, Suffixes[k]), k + 1)

StripSuffixes(name) == StripSuffixesFrom(name, 1)

\* a variant that deletes only the first underscore
RECURSIVE RemoveFirstUnderscore(_)
RemoveFirstUnderscore(name) ==
    IF name = <<>> THEN <<>>
    ELSE IF Head(name) = "_" THEN Tail(name)
    ELSE <<Head(name)>> \o RemoveFirstUnderscore(Tail(name))

\* ''.join(name.split('_'))
RemoveUnderscores(name) == SelectSeq(name, LAMBDA c : c # "_")

normalize_test_name(name) ==
    RemoveUnderscores(StripSuffixes(StripTestPrefix(LowerName(name))))

(***************************************************************************)
(* Normalisation, step by step: one call of normalize_test_name on a name  *)
(* drawn from a bounded set, followed by a second call on its own result.  *)
(***************************************************************************)
MaxFrags == 4

\* the pieces names are built from
NameFrags == {<<"t", "e", "s", "t">>, <<"T", "e", "s", "t">>, <<"s">>, <<"S">>, <<"_">>, <<"a">>}

\* every concatenation of at most MaxFrags pieces
NormNames == {Concat(fs) : fs \in SeqsUpTo(NameFrags, MaxFrags)}

NoName == <<"?">>

InitNormIdle ==
    /\ n_in = NoName /\ n_name = NoName /\ n_pc = "idle"
    /\ n_k = 0 /\ n_pass = 0 /\ n_first = NoName

InitNorm ==
    /\ n_in \in NormNames
    /\ n_name = n_in
    /\ n_pc = "lower"
    /\ n_k = 1
    /\ n_pass = 1
    /\ n_first = NoName

\* name = name.lower()
NormLower ==
    /\ n_pc = "lower"
    /\ n_name' = LowerName(n_name)
    /\ n_pc' = "prefix"
    /\ UNCHANGED <<n_in, n_k, n_pass, n_first>>

\* if name.startswith('test'): name = name[4:]
NormPrefix ==
    /\ n_pc = "prefix"
    /\ n_name' = StripTestPrefix(n_name)
    /\ n_pc' = "suffix"
    /\ n_k' = 1
    /\ UNCHANGED <<n_in, n_pass, n_first>>

\* one iteration of  for suffix in ['_test', 'test', '_tests', 'tests']
NormSuffix ==
    /\ n_pc = "suffix"
    /\ n_k <= Len(Suffixes)
    /\ n_name' = StripSuffix(n_name, Suffixes[n_k])
    /\ n_k' = n_k + 1
    /\ UNCHANGED <<n_in, n_pc, n_pass, n_first>>

\* return ''.join(name.split('_'))
NormJoin ==
    /\ n_pc = "suffix"
    /\ n_k > Len(Suffixes)
    /\ n_name' = RemoveUnderscores(n_name)
    /\ n_pc' = "done"
    /\ UNCHANGED <<n_in, n_k, n_pass, n_first>>

\* the caller normalises the result once more
NormAgain ==
    /\ n_pc = "done"
    /\ n_pass = 1
    /\ n_first' = n_name
    /\ n_pass' = 2
    /\ n_pc' = "lower"
    /\ n_k' = 1
    /\ UNCHANGED <<n_in, n_name>>


(***************************************************************************)
(* find_matching_c_sharp_method                                            *)
(* A method record is [name, line]; the other keys of the extracted        *)
(* dictionaries are not read by the matcher or the analyser.               *)
(***************************************************************************)
\* the return value None
None == [match_type |-> "none"]

RECURSIVE FirstExact(_, _, _)
\* first loop: the index of the first candidate from j on whose normalised
\* name equals swift_normalized, 0 when the loop ends without returning
FirstExact(swift_normalized, cs_methods, j) ==
    IF j > Len(cs_methods) THEN 0
    ELSE IF swift_normalized = normalize_test_name(cs_methods[j].name) THEN j
    ELSE FirstExact(swift_normalized, cs_methods, j + 1)

\* a containment test that an empty name never passes
PartialTestNonEmpty(swift_normalized, cs_normalized) ==
    /\ swift_normalized # <<>>
    /\ cs_normalized # <<>>
    /\ (Contains(cs_normalized, swift_normalized) \/ Contains(swift_normalized, cs_normalized))

\* swift_normalized in cs_normalized or cs_normalized in swift_normalized
PartialTest(swift_normalized, cs_normalized) ==
    Contains(cs_normalized, swift_normalized) \/ Contains(swift_normalized, cs_normalized)

RECURSIVE FirstPartial(_, _, _)
\* second loop: the index of the first candidate from j on that passes the
\* containment test, 0 when the loop ends without returning
FirstPartial(swift_normalized, cs_methods, j) ==
    IF j > Len(cs_methods) THEN 0
    ELSE IF PartialTest(swift_normalized, normalize_test_name(cs_methods[j].name)) THEN j
    ELSE FirstPartial(swift_normalized, cs_methods, j + 1)

RECURSIVE FirstEither(_, _, _)
FirstEither(swift_normalized, cs_methods, j) ==
    IF j > Len(cs_methods) THEN 0
    ELSE IF PartialTest(swift_normalized, normalize_test_name(cs_methods[j].name)) THEN j
    ELSE FirstEither(swift_normalized, cs_methods, j + 1)

\* a variant with one loop: the first candidate that passes either test wins
find_matching_one_loop(swift_method, cs_methods) ==
    LET swift_normalized == normalize_test_name(swift_method.name)
        k == FirstEither(swift_normalized, cs_methods, 1)
    IN  IF k = 0 THEN None
        ELSE IF swift_normalized = normalize_test_name(cs_methods[k].name)
             THEN [match_type |-> "exact", method |-> cs_methods[k]]
             ELSE [match_type |-> "partial", method |-> cs_methods[k]]

find_matching_c_sharp_method(swift_method, cs_methods) ==
    LET swift_normalized == normalize_test_name(swift_method.name)
        e == FirstExact(swift_normalized, cs_methods, 1)
        p == FirstPartial(swift_normalized, cs_methods, 1)
    IN  IF e # 0 THEN [match_type |-> "exact", method |-> cs_methods[e]]
        ELSE IF p # 0 THEN [match_type |-> "partial", method |-> cs_methods[p]]
        ELSE None

(***************************************************************************)
(* Rounding.  round(x, 1) of a percentage is kept in tenths of a percent   *)
(* and round(x, 2) of a factor in hundredths, so 100.0 is 1000 and 1.33    *)
(* is 133.  Python rounds a tie to the even neighbour.                     *)
(***************************************************************************)
RoundRatio(num, den) ==
    LET q == num \div den
        r == num % den
    IN  IF 2 * r < den THEN q
        ELSE IF 2 * r > den THEN q + 1
        ELSE IF q % 2 = 0 THEN q ELSE q + 1

(***************************************************************************)
(* analyze_file_pair, one loop iteration per step                          *)
(***************************************************************************)
MaxSwift == 3
MaxCsharp == 3

SwiftNamePool == {<<"t", "e", "s", "t", "A", "_", "t", "e", "s", "t">>, <<"t", "e", "s", "t", "A">>, <<"t", "e", "s", "t", "A", "B">>, <<"t", "e", "s", "t", "B">>, <<"t", "e", "s", "t", "T", "e", "s", "t">>}
CsharpNamePool == {<<"A", "T", "e", "s", "t", "s">>, <<"T", "e", "s", "t", "A">>, <<"T", "e", "s", "t", "A", "B">>, <<"T", "e", "s", "t", "D">>, <<"T", "e", "s", "t">>}

\* the method lists of the worked examples
ScenarioPairs == {
    <<<<<<"t", "e", "s", "t", "A">>, <<"t", "e", "s", "t", "B">>, <<"t", "e", "s", "t", "A", "s", "y", "n", "c", "C">>>>,
      <<<<"T", "e", "s", "t", "A">>, <<"T", "e", "s", "t", "B", "E", "x", "t", "r", "a">>, <<"T", "e", "s", "t", "A", "s", "y", "n", "c", "C">>, <<"T", "e", "s", "t", "D">>>>>>,
    <<<<<<"t", "e", "s", "t", "T", "r", "a", "n", "s", "f", "e", "r", "A", "s", "y", "n", "c">>>>, <<<<"T", "e", "s", "t", "T", "r", "a", "n", "s", "f", "e", "r", "A", "s", "y", "n", "c">>, <<"T", "e", "s", "t", "T", "r", "a", "n", "s", "f", "e", "r", "F", "a", "i", "l", "s", "A", "s", "y", "n", "c">>>>>>,
    <<<<<<"t", "e", "s", "t", "M", "i", "n", "t">>>>, <<<<"T", "e", "s", "t", "M", "i", "n", "t", "T", "o", "k", "e", "n">>>>>>,
    <<<<<<"A">>>>, <<>>>> }

\* extraction gives each method its name and its place in the file; the
\* names of one file are distinct
MethodList(names) == [i \in 1..Len(names) |-> [name |-> names[i], line |-> i]]

NamePairs ==
    (Distinct(SeqsUpTo(SwiftNamePool, MaxSwift)) \X Distinct(SeqsUpTo(CsharpNamePool, MaxCsharp)))
        \cup ScenarioPairs

NoAnalysis == [swift_methods |-> 0, csharp_methods |-> 0, matched_methods |-> <<>>,
               unmatched_swift |-> <<>>, extra_csharp |-> <<>>, coverage_stats |-> <<>>]

InitPairIdle ==
    /\ swift_methods = <<>> /\ csharp_methods = <<>>
    /\ analysis = NoAnalysis /\ matched_cs_methods = {}
    /\ p_pc = "idle" /\ p_i = 0

InitPair ==
    /\ \E np \in NamePairs :
          /\ swift_methods = MethodList(np[1])
          /\ csharp_methods = MethodList(np[2])
    /\ analysis = [swift_methods |-> Len(swift_methods),
                   csharp_methods |-> Len(csharp_methods),
                   matched_methods |-> <<>>,
                   unmatched_swift |-> <<>>,
                   extra_csharp |-> <<>>,
                   coverage_stats |-> <<>>]
    /\ matched_cs_methods = {}
    /\ p_pc = "match"
    /\ p_i = 1

\* a variant that looks for the match among the targets not yet claimed
MatchFoundAmongUnclaimed ==
    /\ p_pc = "match"
    /\ p_i <= Len(swift_methods)
    /\ LET swift_method == swift_methods[p_i]
           unclaimed == SelectSeq(csharp_methods, LAMBDA m : m.name \notin matched_cs_methods)
           found == find_matching_c_sharp_method(swift_method, unclaimed)
       IN  /\ found # None
           /\ analysis' = [analysis EXCEPT !.matched_methods =
                  Append(@, [swift |-> swift_method,
                             csharp |-> found.method,
                             match_type |-> found.match_type])]
           /\ matched_cs_methods' = matched_cs_methods \cup {found.method.name}
    /\ p_i' = p_i + 1
    /\ UNCHANGED <<swift_methods, csharp_methods, p_pc>>

\* one iteration of  for swift_method in swift_methods  with a match
MatchFound ==
    /\ p_pc = "match"
    /\ p_i <= Len(swift_methods)
    /\ LET swift_method == swift_methods[p_i]
           found == find_matching_c_sharp_method(swift_method, csharp_methods)
       IN  /\ found # None
           /\ analysis' = [analysis EXCEPT !.matched_methods =
                  Append(@, [swift |-> swift_method,
                             csharp |-> found.method,
                             match_type |-> found.match_type])]
           /\ matched_cs_methods' = matched_cs_methods \cup {found.method.name}
    /\ p_i' = p_i + 1
    /\ UNCHANGED <<swift_methods, csharp_methods, p_pc>>

\* one iteration of  for swift_method in swift_methods  without a match
MatchMissing ==
    /\ p_pc = "match"
    /\ p_i <= Len(swift_methods)
    /\ LET swift_method == swift_methods[p_i]
       IN  /\ find_matching_c_sharp_method(swift_method, csharp_methods) = None
           /\ analysis' = [analysis EXCEPT !.unmatched_swift = Append(@, swift_method)]
    /\ p_i' = p_i + 1
    /\ UNCHANGED <<swift_methods, csharp_methods, matched_cs_methods, p_pc>>

\* the matching loop ends
MatchEnd ==
    /\ p_pc = "match"
    /\ p_i > Len(swift_methods)
    /\ p_pc' = "extra"
    /\ p_i' = 1
    /\ UNCHANGED <<swift_methods, csharp_methods, analysis, matched_cs_methods>>

\* a variant with the membership test inverted
ExtraNextInverted ==
    /\ p_pc = "extra"
    /\ p_i <= Len(csharp_methods)
    /\ LET cs_method == csharp_methods[p_i]
       IN  analysis' = IF cs_method.name \in matched_cs_methods
                       THEN [analysis EXCEPT !.extra_csharp = Append(@, cs_method)]
                       ELSE analysis
    /\ p_i' = p_i + 1
    /\ UNCHANGED <<swift_methods, csharp_methods, matched_cs_methods, p_pc>>

\* one iteration of  for cs_method in csharp_methods
ExtraNext ==
    /\ p_pc = "extra"
    /\ p_i <= Len(csharp_methods)
    /\ LET cs_method == csharp_methods[p_i]
       IN  analysis' = IF cs_method.name \notin matched_cs_methods
                       THEN [analysis EXCEPT !.extra_csharp = Append(@, cs_method)]
                       ELSE analysis
    /\ p_i' = p_i + 1
    /\ UNCHANGED <<swift_methods, csharp_methods, matched_cs_methods, p_pc>>

\* the loop over the C# methods ends
ExtraEnd ==
    /\ p_pc = "extra"
    /\ p_i > Len(csharp_methods)
    /\ p_pc' = "stats"
    /\ UNCHANGED <<swift_methods, csharp_methods, analysis, matched_cs_methods, p_i>>

\* a variant that reports an empty reference list as fully covered
coverage_stats_full_when_empty(a, n_swift, n_csharp) ==
    [coverage_percentage |->
         IF n_swift # 0 THEN RoundRatio(Len(a.matched_methods) * 1000, n_swift) ELSE 1000,
     enhancement_factor |->
         IF n_swift # 0 THEN RoundRatio(n_csharp * 100, n_swift) ELSE 0,
     exact_matches |->
         Len(SelectSeq(a.matched_methods, LAMBDA m : m.match_type = "exact")),
     partial_matches |->
         Len(SelectSeq(a.matched_methods, LAMBDA m : m.match_type = "partial")),
     missing_methods |-> Len(a.unmatched_swift),
     enhancement_methods |-> Len(a.extra_csharp)]

\* analysis['coverage_stats'] = {...}
coverage_stats_of(a, n_swift, n_csharp) ==
    [coverage_percentage |->
         IF n_swift # 0 THEN RoundRatio(Len(a.matched_methods) * 1000, n_swift) ELSE 0,
     enhancement_factor |->
         IF n_swift # 0 THEN RoundRatio(n_csharp * 100, n_swift) ELSE 0,
     exact_matches |->
         Len(SelectSeq(a.matched_methods, LAMBDA m : m.match_type = "exact")),
     partial_matches |->
         Len(SelectSeq(a.matched_methods, LAMBDA m : m.match_type = "partial")),
     missing_methods |-> Len(a.unmatched_swift),
     enhancement_methods |-> Len(a.extra_csharp)]

ComputeStats ==
    /\ p_pc = "stats"
    /\ analysis' = [analysis EXCEPT !.coverage_stats =
           coverage_stats_of(analysis, Len(swift_methods), Len(csharp_methods))]
    /\ p_pc' = "done"
    /\ UNCHANGED <<swift_methods, csharp_methods, matched_cs_methods, p_i>>


(***************************************************************************)
(* extract_detailed_test_methods                                           *)
(* The text is a sequence of characters.  The character "D" stands for the *)
(* part of a declaration that the pattern matches before any brace: for    *)
(* Swift "func testX()" with its optional public, async and throws, for C# *)
(* the attribute, the return type, the name and the parameter list.  The   *)
(* Swift pattern goes on with optional white space and the opening brace;  *)
(* the C# pattern ends with the parameter list.                            *)
(* Offsets are Python's: the first character is at offset 0 and the slice  *)
(* content[a:b] holds the offsets a .. b-1.                                *)
(***************************************************************************)
FallbackWindow == 100

Whitespace == {" ", "\n"}

\* content[p]
CharAt(text, p) == text[p + 1]

\* text[a:b]
Slice(text, a, b) == SubSeq(text, a + 1, Min(b, Len(text)))

\* text.count('\n')
Newlines(text) == Cardinality({k \in 1..Len(text) : text[k] = "\n"})

RECURSIVE SkipWhitespace(_, _)
\* \s* from offset p: the offset of the first character that is not white
SkipWhitespace(text, p) ==
    IF p < Len(text) /\ CharAt(text, p) \in Whitespace
    THEN SkipWhitespace(text, p + 1) ELSE p

NoMatch == [start |-> -1, end |-> -1]

\* the match of the pattern that starts at offset p, if there is one
MatchAt(text, swift, p) ==
    IF CharAt(text, p) # "D" THEN NoMatch
    ELSE IF ~swift THEN [start |-> p, end |-> p + 1]
    ELSE LET q == SkipWhitespace(text, p + 1)
         IN  IF q < Len(text) /\ CharAt(text, q) = "{"
             THEN [start |-> p, end |-> q + 1] ELSE NoMatch

\* re.finditer: the first match at or after offset p
NextMatch(text, swift, p) ==
    LET sites == {q \in p..(Len(text) - 1) : MatchAt(text, swift, q) # NoMatch}
    IN  IF sites = {} THEN NoMatch ELSE MatchAt(text, swift, Least(sites))

\* while pos < len(content) and content[pos] != '{': pos += 1
FindOpeningBrace(text, pos) ==
    LET braces == {q \in pos..(Len(text) - 1) : CharAt(text, q) = "{"}
    IN  IF braces = {} THEN Max(pos, Len(text)) ELSE Least(braces)

\* the braces at or after offset i
BracesFrom(text, i) == {q \in i..(Len(text) - 1) : CharAt(text, q) \in {"{", "}"}}

\* a variant of the scan that returns at the first closing brace
ScanToFirstClose(text, i, brace_count, method_end) ==
    LET closing == {q \in i..(Len(text) - 1) : CharAt(text, q) = "}"}
    IN  IF closing = {} THEN method_end ELSE Least(closing) + 1

RECURSIVE ScanBraces(_, _, _, _)
\* for i, char in enumerate(content[pos:], pos): the value of method_end when
\* the loop is left, by break or at the end of the text.  An iteration on a
\* character that is no brace changes nothing, so the scan steps from brace
\* to brace.
ScanBraces(text, i, brace_count, method_end) ==
    IF BracesFrom(text, i) = {} THEN method_end
    ELSE LET q == Least(BracesFrom(text, i))
         IN  IF CharAt(text, q) = "{"
             THEN ScanBraces(text, q + 1, brace_count + 1, method_end)
             ELSE IF brace_count - 1 = 0 THEN q + 1
             ELSE ScanBraces(text, q + 1, brace_count - 1, method_end)

\* a variant whose body runs to the end of the text when no brace closes it
BodyToEndOfText(text, swift, m) ==
    LET pos == IF swift THEN m.end - 1 ELSE FindOpeningBrace(text, m.end)
        method_end == ScanBraces(text, pos, 0, pos)
    IN  IF method_end > pos THEN Slice(text, m.start, method_end)
        ELSE Slice(text, m.start, Len(text))

\* method_body of the match m
MethodBody(text, swift, m) ==
    IF swift
    THEN LET pos == m.end - 1
             method_end == ScanBraces(text, pos, 0, pos)
         IN  Slice(text, m.start, method_end)
    ELSE LET pos == FindOpeningBrace(text, m.end)
             method_end == ScanBraces(text, pos, 0, pos)
         IN  IF method_end > pos THEN Slice(text, m.start, method_end)
             ELSE Slice(text, m.start, m.end + FallbackWindow)

\* test_info, the keys that do not depend on marker words
TestInfo(text, swift, m) ==
    [line |-> Newlines(Slice(text, 0, m.start)) + 1,
     body_length |-> Newlines(MethodBody(text, swift, m)) + 1]

MaxContent == 5

ContentChars == {"D", "{", "}", "\n"}

\* more text than the fallback window holds
Padding == [k \in 1..(FallbackWindow + 1) |-> "a"]

\* the two sources of the worked examples: "func testX() { if (a) { b() } }"
\* and "func testX() { b()"
ScenarioContents == {
    <<"D", " ", "{", " ", "i", "f", " ", "(", "a", ")", " ", "{", " ", "b", "(", ")",
      " ", "}", " ", "}">>,
    <<"D", " ", "{", " ", "b", "(", ")">> }

Contents ==
    {h \o p \o t : h \in SeqsUpTo(ContentChars, MaxContent),
                   p \in {<<>>, Padding}, t \in {<<>>, <<"}">>}}
        \cup ScenarioContents

extractVars == <<content, is_swift, methods, match, method_body, e_pc, e_from>>

InitExtractIdle ==
    /\ content = <<>> /\ is_swift = FALSE /\ methods = <<>>
    /\ match = NoMatch /\ method_body = <<>> /\ e_pc = "idle" /\ e_from = 0

InitExtract ==
    /\ content \in Contents
    /\ is_swift \in BOOLEAN
    /\ methods = <<>>
    /\ match = NoMatch
    /\ method_body = <<>>
    /\ e_pc = "open"
    /\ e_from = 0

\* content = f.read() succeeds
ReadFile ==
    /\ e_pc = "open"
    /\ e_pc' = "matches"
    /\ UNCHANGED <<content, is_swift, methods, match, method_body, e_from>>

\* open or read raises: except Exception ... return []
ReadFails ==
    /\ e_pc = "open"
    /\ methods' = <<>>
    /\ e_pc' = "returned"
    /\ UNCHANGED <<content, is_swift, match, method_body, e_from>>

\* one iteration of  for match in matches
ExtractMethod ==
    /\ e_pc = "matches"
    /\ NextMatch(content, is_swift, e_from) # NoMatch
    /\ match' = NextMatch(content, is_swift, e_from)
    /\ method_body' = MethodBody(content, is_swift, match')
    /\ methods' = Append(methods, TestInfo(content, is_swift, match'))
    /\ e_from' = match'.end
    /\ UNCHANGED <<content, is_swift, e_pc>>

\* return methods
ExtractReturn ==
    /\ e_pc = "matches"
    /\ NextMatch(content, is_swift, e_from) = NoMatch
    /\ e_pc' = "returned"
    /\ UNCHANGED <<content, is_swift, methods, match, method_body, e_from>>

(***************************************************************************)
(* generate_detailed_mapping_report: the loop over key_pairs and the       *)
(* summary.  Each pair that is not skipped is analysed by                  *)
(* analyze_file_pair; only its three counts enter the totals.              *)
(***************************************************************************)
NumKeyPairs == 9

MaxReportMethods == 1

\* the value of  match  for each reference method, in order
MatchResults(sw_methods, cs_methods) ==
    [i \in 1..Len(sw_methods) |-> find_matching_c_sharp_method(sw_methods[i], cs_methods)]

\* len(analysis['matched_methods'])
MatchedCount(sw_methods, cs_methods) ==
    Cardinality({i \in 1..Len(sw_methods) :
                    MatchResults(sw_methods, cs_methods)[i] # None})

\* len(analysis['extra_csharp'])
ExtraCount(sw_methods, cs_methods) ==
    LET results == MatchResults(sw_methods, cs_methods)
        claimed == {results[i].method.name :
                       i \in {k \in 1..Len(sw_methods) : results[k] # None}}
    IN  Cardinality({j \in 1..Len(cs_methods) : cs_methods[j].name \notin claimed})

\* the counts one analysed pair adds to the totals
PairCounts(np) ==
    [swift |-> Len(np[1]),
     matched |-> MatchedCount(MethodList(np[1]), MethodList(np[2])),
     extra |-> ExtraCount(MethodList(np[1]), MethodList(np[2]))]

ReportOutcomes ==
    {PairCounts(np) :
        np \in Distinct(SeqsUpTo(SwiftNamePool, MaxReportMethods))
                 \X Distinct(SeqsUpTo(CsharpNamePool, MaxReportMethods))}

NoOverall == [overall_coverage |-> -1, overall_enhancement |-> -1]

reportVars == <<r_k, total_coverage_stats, overall, r_pc>>

InitReportIdle ==
    /\ r_k = 0 /\ r_pc = "idle" /\ overall = NoOverall
    /\ total_coverage_stats = [total_swift_methods |-> 0, total_matched_methods |-> 0,
                               total_enhancement_methods |-> 0]

InitReport ==
    /\ r_k = 1
    /\ r_pc = "pairs"
    /\ overall = NoOverall
    /\ total_coverage_stats = [total_swift_methods |-> 0, total_matched_methods |-> 0,
                               total_enhancement_methods |-> 0]

\* a file of the pair does not exist: continue
SkipPair ==
    /\ r_pc = "pairs"
    /\ r_k <= NumKeyPairs
    /\ r_k' = r_k + 1
    /\ UNCHANGED <<total_coverage_stats, overall, r_pc>>

\* the pair is extracted and analysed, and the totals are updated
AnalyzePair ==
    /\ r_pc = "pairs"
    /\ r_k <= NumKeyPairs
    /\ \E o \in ReportOutcomes :
          total_coverage_stats' =
              [total_swift_methods |-> total_coverage_stats.total_swift_methods + o.swift,
               total_matched_methods |-> total_coverage_stats.total_matched_methods + o.matched,
               total_enhancement_methods |->
                   total_coverage_stats.total_enhancement_methods + o.extra]
    /\ r_k' = r_k + 1
    /\ UNCHANGED <<overall, r_pc>>

\* overall_coverage and overall_enhancement
Summarize ==
    /\ r_pc = "pairs"
    /\ r_k > NumKeyPairs
    /\ LET t == total_coverage_stats
       IN  overall' =
               [overall_coverage |->
                    IF t.total_swift_methods > 0
                    THEN RoundRatio(t.total_matched_methods * 1000, t.total_swift_methods)
                    ELSE 0,
                overall_enhancement |->
                    IF t.total_swift_methods > 0
                    THEN RoundRatio((t.total_matched_methods + t.total_enhancement_methods) * 100,
                                    t.total_swift_methods)
                    ELSE 0]
    /\ r_pc' = "done"
    /\ UNCHANGED <<r_k, total_coverage_stats>>

(***************************************************************************)
(* TestCoverageAnalyzer.  A file's list of test methods is kept as its     *)
(* length, the only thing the analyser reads of it.  Files are visited in  *)
(* the order of SwiftPaths and CsharpPaths, which is then the insertion    *)
(* order of the dictionaries.                                              *)
(***************************************************************************)
MaxMethods == 2

\* self.categories, in insertion order
Categories == <<
    [key |-> "contract", chars |-> <<"c", "o", "n", "t", "r", "a", "c", "t">>],
    [key |-> "crypto", chars |-> <<"c", "r", "y", "p", "t", "o">>],
    [key |-> "protocol", chars |-> <<"p", "r", "o", "t", "o", "c", "o", "l">>],
    [key |-> "script", chars |-> <<"s", "c", "r", "i", "p", "t">>],
    [key |-> "serialization", chars |-> <<"s", "e", "r", "i", "a", "l", "i", "z", "a", "t", "i", "o", "n">>],
    [key |-> "transaction", chars |-> <<"t", "r", "a", "n", "s", "a", "c", "t", "i", "o", "n">>],
    [key |-> "types", chars |-> <<"t", "y", "p", "e", "s">>],
    [key |-> "wallet", chars |-> <<"w", "a", "l", "l", "e", "t">>],
    [key |-> "witnessrule", chars |-> <<"w", "i", "t", "n", "e", "s", "s", "r", "u", "l", "e">>],
    [key |-> "helpers", chars |-> <<"h", "e", "l", "p", "e", "r", "s">>],
    [key |-> "core", chars |-> <<"c", "o", "r", "e">>] >>

SwiftPaths == <<<<"c", "r", "y", "p", "t", "o", "/", "A", "T", "e", "s", "t", "s", ".", "s", "w", "i", "f", "t">>,
                <<"c", "r", "y", "p", "t", "o", "/", "B", "T", "e", "s", "t", "s", ".", "s", "w", "i", "f", "t">>,
                <<"c", "r", "y", "p", "t", "o", "/", "A", ".", "s", "w", "i", "f", "t">>,
                <<"w", "a", "l", "l", "e", "t", "/", "A", "T", "e", "s", "t", "s", ".", "s", "w", "i", "f", "t">>,
                <<"c", "o", "n", "t", "r", "a", "c", "t", "/", "C", "r", "y", "p", "t", "o", "T", "e", "s", "t", "s", ".", "s", "w", "i", "f", "t">>,
                <<"c", "r", "y", "p", "t", "o", "/", "M", "o", "c", "k", "T", "e", "s", "t", "s", ".", "s", "w", "i", "f", "t">>>>

CsharpPaths == <<<<"C", "r", "y", "p", "t", "o", "/", "A", "T", "e", "s", "t", "s", ".", "c", "s">>,
                 <<"C", "r", "y", "p", "t", "o", "/", "C", "T", "e", "s", "t", "s", ".", "c", "s">>,
                 <<"W", "a", "l", "l", "e", "t", "/", "A", "T", "e", "s", "t", "s", ".", "c", "s">>,
                 <<"C", "o", "r", "e", "/", "T", "e", "s", "t", "H", "e", "l", "p", "e", "r", ".", "c", "s">>>>

SwiftHelperMarks == {<<"j", "s", "o", "n">>, <<"m", "o", "c", "k">>, <<"t", "e", "s", "t", "p", "r", "o", "p", "e", "r", "t", "i", "e", "s">>}
CsharpHelperMarks == {<<"m", "o", "c", "k">>, <<"h", "e", "l", "p", "e", "r">>, <<"t", "e", "s", "t", "s", "u", "i", "t", "e", "r", "u", "n", "n", "e", "r">>}

\* the offsets (from 1) of the character c in s
Positions(s, c) == {k \in 1..Len(s) : s[k] = c}

Greatest(S) == CHOOSE x \in S : \A y \in S : x >= y

\* Path(f).name
FileName(path) ==
    IF Positions(path, "/") = {} THEN path
    ELSE SubSeq(path, Greatest(Positions(path, "/")) + 1, Len(path))

\* Path(f).stem
Stem(path) ==
    LET name == FileName(path)
        dots == Positions(name, ".")
    IN  IF dots # {} /\ 1 < Greatest(dots) /\ Greatest(dots) < Len(name)
        THEN SubSeq(name, 1, Greatest(dots) - 1) ELSE name

RECURSIVE Remove(_, _)
\* s.replace(w, '')
Remove(s, w) ==
    IF Len(s) < Len(w) THEN s
    ELSE IF StartsWith(s, w) THEN Remove(SubSeq(s, Len(w) + 1, Len(s)), w)
    ELSE <<Head(s)>> \o Remove(Tail(s), w)

\* Path(f).stem.replace('Tests', '')
StemId(path) == Remove(Stem(path), <<"T", "e", "s", "t", "s">>)

\* any(helper in test_file.name.lower() for helper in [...])
IsHelper(path, marks) == \E h \in marks : Contains(LowerName(FileName(path)), h)

RECURSIVE LastCategory(_, _)
\* the loop over self.categories without its break: the last keyword wins
LastCategory(lowered, k) ==
    IF k > Len(Categories) THEN "other"
    ELSE IF /\ Contains(lowered, Categories[k].chars)
            /\ LastCategory(lowered, k + 1) = "other"
         THEN Categories[k].key
    ELSE LastCategory(lowered, k + 1)

RECURSIVE FirstCategory(_, _)
\* the loop over self.categories with its break
FirstCategory(lowered, k) ==
    IF k > Len(Categories) THEN "other"
    ELSE IF Contains(lowered, Categories[k].chars) THEN Categories[k].key
    ELSE FirstCategory(lowered, k + 1)

\* the category categorize_tests files the path under
CategoryOf(path) == FirstCategory(LowerName(path), 1)

\* categorize_tests(test_dict)[category]: the files of the category
FilesOf(test_dict, category) == {p \in DOMAIN test_dict : CategoryOf(p) = category}

\* categorize_tests(test_dict).keys()
CategoriesOf(test_dict) == {CategoryOf(p) : p \in DOMAIN test_dict}

RECURSIVE SumOver(_, _)
SumOver(test_dict, files) ==
    IF files = {} THEN 0
    ELSE LET p == CHOOSE x \in files : TRUE
         IN  test_dict[p] + SumOver(test_dict, files \ {p})

\* sum(len(methods) for methods in files.values())
MethodCount(test_dict, category) == SumOver(test_dict, FilesOf(test_dict, category))

\* sum(len(methods) for methods in test_dict.values())
TotalMethods(test_dict) == SumOver(test_dict, DOMAIN test_dict)

\* the sub-sequence of paths that are keys of test_dict
KeysInOrder(paths, test_dict) == SelectSeq(paths, LAMBDA p : p \in DOMAIN test_dict)

\* the categories of test_dict in the order of their first file
CategoriesInOrder(paths, test_dict) ==
    LET keys == KeysInOrder(paths, test_dict)
        firsts == SelectSeq([k \in 1..Len(keys) |-> k],
                            LAMBDA k : \A j \in 1..(k - 1) :
                                          CategoryOf(keys[j]) # CategoryOf(keys[k]))
    IN  [k \in 1..Len(firsts) |-> CategoryOf(keys[firsts[k]])]

\* the files of a category, in insertion order
FilesInOrder(paths, test_dict, category) ==
    SelectSeq(KeysInOrder(paths, test_dict), LAMBDA p : CategoryOf(p) = category)

\* the inner loop without its test of the stem: every Swift file of the
\* category is appended once for each missing stem
MissingFilesWithoutStemTest(sw_tests, cs_tests, category) ==
    LET files == FilesInOrder(SwiftPaths, sw_tests, category)
        csharp_file_names == {StemId(f) : f \in FilesOf(cs_tests, category)}
        firsts == SelectSeq([k \in 1..Len(files) |-> k],
                      LAMBDA k : /\ StemId(files[k]) \notin csharp_file_names
                                 /\ \A j \in 1..(k - 1) : StemId(files[j]) # StemId(files[k]))
        entry(f) == [category |-> category, file |-> f, missing_methods |-> sw_tests[f]]
    IN  Concat([n \in 1..Len(firsts) |-> [m \in 1..Len(files) |-> entry(files[m])]])

\* the entries find_missing_coverage appends to missing_files for one
\* category that has C# files: for each stem of the set difference, every
\* Swift file with that stem
MissingFilesIn(sw_tests, cs_tests, category) ==
    LET files == FilesInOrder(SwiftPaths, sw_tests, category)
        csharp_file_names == {StemId(f) : f \in FilesOf(cs_tests, category)}
        firsts == SelectSeq([k \in 1..Len(files) |-> k],
                      LAMBDA k : /\ StemId(files[k]) \notin csharp_file_names
                                 /\ \A j \in 1..(k - 1) : StemId(files[j]) # StemId(files[k]))
        group(k) == SelectSeq(files, LAMBDA f : StemId(f) = StemId(files[k]))
        entry(f) == [category |-> category, file |-> f, missing_methods |-> sw_tests[f]]
    IN  Concat([n \in 1..Len(firsts) |->
                   [m \in 1..Len(group(firsts[n])) |-> entry(group(firsts[n])[m])]])

\* the value float('inf')
Infinity == [inf |-> TRUE]

find_missing_coverage(sw_tests, cs_tests) ==
    LET swift_cats == CategoriesInOrder(SwiftPaths, sw_tests)
        csharp_cats == CategoriesInOrder(CsharpPaths, cs_tests)
        absent == SelectSeq(swift_cats, LAMBDA c : c \notin CategoriesOf(cs_tests))
        present == SelectSeq(swift_cats, LAMBDA c : c \in CategoriesOf(cs_tests))
        enhanced == SelectSeq(csharp_cats,
                        LAMBDA c : /\ c \in CategoriesOf(sw_tests)
                                   /\ MethodCount(cs_tests, c) > MethodCount(sw_tests, c))
    IN  [missing_categories |->
             [k \in 1..Len(absent) |->
                 [category |-> absent[k],
                  files |-> FilesInOrder(SwiftPaths, sw_tests, absent[k]),
                  test_count |-> MethodCount(sw_tests, absent[k])]],
         missing_files |->
             Concat([k \in 1..Len(present) |-> MissingFilesIn(sw_tests, cs_tests, present[k])]),
         c_sharp_enhancements |->
             [k \in 1..Len(enhanced) |->
                 [category |-> enhanced[k],
                  swift_tests |-> MethodCount(sw_tests, enhanced[k]),
                  csharp_tests |-> MethodCount(cs_tests, enhanced[k]),
                  enhancement_factor |->
                      IF MethodCount(sw_tests, enhanced[k]) > 0
                      THEN RoundRatio(MethodCount(cs_tests, enhanced[k]) * 100,
                                      MethodCount(sw_tests, enhanced[k]))
                      ELSE Infinity]]]

\* status = COMPLETE if csharp_count >= swift_count and csharp_files
\*          else MISSING if not csharp_files else PARTIAL
CategoryStatus(sw_tests, cs_tests, category) ==
    IF /\ MethodCount(cs_tests, category) >= MethodCount(sw_tests, category)
       /\ FilesOf(cs_tests, category) # {}
    THEN "COMPLETE"
    ELSE IF FilesOf(cs_tests, category) = {} THEN "MISSING" ELSE "PARTIAL"

generate_comprehensive_report(sw_tests, cs_tests) ==
    LET swift_total_methods == TotalMethods(sw_tests)
        csharp_total_methods == TotalMethods(cs_tests)
        missing == find_missing_coverage(sw_tests, cs_tests)
        total_missing == Len(missing.missing_categories) + Len(missing.missing_files)
        coverage_percentage ==
            IF swift_total_methods > 0
            THEN RoundRatio(csharp_total_methods * 1000, swift_total_methods) ELSE 0
    IN  [enhancement_factor |->
             IF swift_total_methods > 0
             THEN RoundRatio(csharp_total_methods * 100, swift_total_methods) ELSE 0,
         status |->
             [c \in CategoriesOf(sw_tests) \cup CategoriesOf(cs_tests) |->
                 CategoryStatus(sw_tests, cs_tests, c)],
         total_missing |-> total_missing,
         coverage_percentage |-> coverage_percentage,
         verdict |->
             IF coverage_percentage >= 1000 /\ total_missing = 0 THEN "COMPLETE"
             ELSE IF coverage_percentage >= 800 THEN "SUBSTANTIAL"
             ELSE "INSUFFICIENT"]

NoDict == <<>>

NoReport == [verdict |-> "none"]

covVars == <<swift_tests, csharp_tests, missing_coverage, report, c_pc, c_i>>

InitCovIdle ==
    /\ swift_tests = NoDict /\ csharp_tests = NoDict
    /\ missing_coverage = NoReport /\ report = NoReport
    /\ c_pc = "idle" /\ c_i = 0

\* analyzer = TestCoverageAnalyzer()
InitCov ==
    /\ swift_tests = NoDict
    /\ csharp_tests = NoDict
    /\ missing_coverage = NoReport
    /\ report = NoReport
    /\ c_pc = "swift"
    /\ c_i = 1

\* analyze_swift_tests: a helper file is skipped
SkipSwiftHelper ==
    /\ c_pc = "swift"
    /\ c_i <= Len(SwiftPaths)
    /\ IsHelper(SwiftPaths[c_i], SwiftHelperMarks)
    /\ c_i' = c_i + 1
    /\ UNCHANGED <<swift_tests, csharp_tests, missing_coverage, report, c_pc>>

\* analyze_swift_tests: a file is extracted and kept if it has test methods
AnalyzeSwiftFile ==
    /\ c_pc = "swift"
    /\ c_i <= Len(SwiftPaths)
    /\ ~IsHelper(SwiftPaths[c_i], SwiftHelperMarks)
    /\ \E test_methods \in 0..MaxMethods :
          swift_tests' = IF test_methods > 0
                         THEN (SwiftPaths[c_i] :> test_methods) @@ swift_tests
                         ELSE swift_tests
    /\ c_i' = c_i + 1
    /\ UNCHANGED <<csharp_tests, missing_coverage, report, c_pc>>

\* analyze_swift_tests returns
SwiftTestsDone ==
    /\ c_pc = "swift"
    /\ c_i > Len(SwiftPaths)
    /\ c_pc' = "csharp"
    /\ c_i' = 1
    /\ UNCHANGED <<swift_tests, csharp_tests, missing_coverage, report>>

\* analyze_csharp_tests: a helper file is skipped
SkipCsharpHelper ==
    /\ c_pc = "csharp"
    /\ c_i <= Len(CsharpPaths)
    /\ IsHelper(CsharpPaths[c_i], CsharpHelperMarks)
    /\ c_i' = c_i + 1
    /\ UNCHANGED <<swift_tests, csharp_tests, missing_coverage, report, c_pc>>

\* analyze_csharp_tests: a file is extracted and kept if it has test methods
AnalyzeCsharpFile ==
    /\ c_pc = "csharp"
    /\ c_i <= Len(CsharpPaths)
    /\ ~IsHelper(CsharpPaths[c_i], CsharpHelperMarks)
    /\ \E test_methods \in 0..MaxMethods :
          csharp_tests' = IF test_methods > 0
                          THEN (CsharpPaths[c_i] :> test_methods) @@ csharp_tests
                          ELSE csharp_tests
    /\ c_i' = c_i + 1
    /\ UNCHANGED <<swift_tests, missing_coverage, report, c_pc>>

\* analyze_csharp_tests returns
CsharpTestsDone ==
    /\ c_pc = "csharp"
    /\ c_i > Len(CsharpPaths)
    /\ c_pc' = "report"
    /\ UNCHANGED <<swift_tests, csharp_tests, missing_coverage, report, c_i>>

\* report = analyzer.generate_comprehensive_report()
GenerateReport ==
    /\ c_pc = "report"
    /\ missing_coverage' = find_missing_coverage(swift_tests, csharp_tests)
    /\ report' = generate_comprehensive_report(swift_tests, csharp_tests)
    /\ c_pc' = "done"
    /\ UNCHANGED <<swift_tests, csharp_tests, c_i>>

(***************************************************************************)
(* categorize_tests on its own: one call on a dictionary of one or two     *)
(* paths built from fragments, among them keywords in either case, two     *)
(* halves of a keyword and text that is no keyword.                        *)
(***************************************************************************)
MaxPathFrags == 2

PathFrags == {<<"c", "o", "n", "t", "r", "a", "c", "t">>,
              <<"C", "r", "y", "p", "t", "o">>,
              <<"c", "o", "r", "e">>,
              <<"H", "e", "l", "p", "e", "r", "s">>,
              <<"s", "c">>,
              <<"r", "i", "p", "t">>,
              <<"x", "/">>}

RECURSIVE PathsUpTo(_)
\* the concatenations of 1..n fragments
PathsUpTo(n) ==
    IF n = 0 THEN {}
    ELSE PathFrags \cup {p \o f : p \in PathsUpTo(n - 1), f \in PathFrags}

PathPool == PathsUpTo(MaxPathFrags)

\* the result of categorize_tests: category -> file -> methods
categorize_tests(test_dict) ==
    [c \in CategoriesOf(test_dict) |->
        [p \in FilesOf(test_dict, c) |-> test_dict[p]]]

InitCategorize ==
    /\ \E p, q \in PathPool : swift_tests = (p :> 1) @@ (q :> 2)
    /\ csharp_tests = NoDict
    /\ missing_coverage = NoReport
    /\ report = NoReport
    /\ c_pc = "categorize"
    /\ c_i = 0

\* swift_categorized = self.categorize_tests(self.swift_tests)
Categorize ==
    /\ c_pc = "categorize"
    /\ report' = [categorized |-> categorize_tests(swift_tests)]
    /\ c_pc' = "categorized"
    /\ UNCHANGED <<swift_tests, csharp_tests, missing_coverage, c_i>>

(***************************************************************************)
(* Specifications                                                          *)
(***************************************************************************)
vars == <<normVars, pairVars, extractVars, reportVars, covVars>>

exceptPair == <<normVars, extractVars, reportVars, covVars>>
exceptNorm == <<pairVars, extractVars, reportVars, covVars>>
exceptExtract == <<normVars, pairVars, reportVars, covVars>>
exceptReport == <<normVars, pairVars, extractVars, covVars>>
exceptCov == <<normVars, pairVars, extractVars, reportVars>>

\* one file-pair analysis
Init == InitPair /\ InitNormIdle /\ InitExtractIdle /\ InitReportIdle /\ InitCovIdle
Next ==
    \/ MatchFound /\ UNCHANGED exceptPair
    \/ MatchMissing /\ UNCHANGED exceptPair
    \/ MatchEnd /\ UNCHANGED exceptPair
    \/ ExtraNext /\ UNCHANGED exceptPair
    \/ ExtraEnd /\ UNCHANGED exceptPair
    \/ ComputeStats /\ UNCHANGED exceptPair
Spec == Init /\ [][Next]_vars

\* one name normalised, then normalised again
InitN == InitNorm /\ InitPairIdle /\ InitExtractIdle /\ InitReportIdle /\ InitCovIdle
NextN ==
    \/ NormLower /\ UNCHANGED exceptNorm
    \/ NormPrefix /\ UNCHANGED exceptNorm
    \/ NormSuffix /\ UNCHANGED exceptNorm
    \/ NormJoin /\ UNCHANGED exceptNorm
    \/ NormAgain /\ UNCHANGED exceptNorm
SpecNorm == InitN /\ [][NextN]_vars

\* one source text extracted under one grammar
InitE == InitExtract /\ InitNormIdle /\ InitPairIdle /\ InitReportIdle /\ InitCovIdle
NextE ==
    \/ ReadFile /\ UNCHANGED exceptExtract
    \/ ReadFails /\ UNCHANGED exceptExtract
    \/ ExtractMethod /\ UNCHANGED exceptExtract
    \/ ExtractReturn /\ UNCHANGED exceptExtract
SpecExtract == InitE /\ [][NextE]_vars

\* one run of the coverage analyser over the two test trees
InitC == InitCov /\ InitNormIdle /\ InitPairIdle /\ InitExtractIdle /\ InitReportIdle
NextC ==
    \/ SkipSwiftHelper /\ UNCHANGED exceptCov
    \/ AnalyzeSwiftFile /\ UNCHANGED exceptCov
    \/ SwiftTestsDone /\ UNCHANGED exceptCov
    \/ SkipCsharpHelper /\ UNCHANGED exceptCov
    \/ AnalyzeCsharpFile /\ UNCHANGED exceptCov
    \/ CsharpTestsDone /\ UNCHANGED exceptCov
    \/ GenerateReport /\ UNCHANGED exceptCov
SpecCoverage == InitC /\ [][NextC]_vars

\* the three places that compute a ratio: one file-pair analysis, one run of
\* the mapping report, or one run of the coverage analyser
InitR ==
    \/ InitPair /\ InitNormIdle /\ InitExtractIdle /\ InitReportIdle /\ InitCovIdle
    \/ InitReport /\ InitNormIdle /\ InitPairIdle /\ InitExtractIdle /\ InitCovIdle
    \/ InitCov /\ InitNormIdle /\ InitPairIdle /\ InitExtractIdle /\ InitReportIdle
NextR ==
    \/ MatchFound /\ UNCHANGED exceptPair
    \/ MatchMissing /\ UNCHANGED exceptPair
    \/ MatchEnd /\ UNCHANGED exceptPair
    \/ ExtraNext /\ UNCHANGED exceptPair
    \/ ExtraEnd /\ UNCHANGED exceptPair
    \/ ComputeStats /\ UNCHANGED exceptPair
    \/ SkipPair /\ UNCHANGED exceptReport
    \/ AnalyzePair /\ UNCHANGED exceptReport
    \/ Summarize /\ UNCHANGED exceptReport
    \/ SkipSwiftHelper /\ UNCHANGED exceptCov
    \/ AnalyzeSwiftFile /\ UNCHANGED exceptCov
    \/ SwiftTestsDone /\ UNCHANGED exceptCov
    \/ SkipCsharpHelper /\ UNCHANGED exceptCov
    \/ AnalyzeCsharpFile /\ UNCHANGED exceptCov
    \/ CsharpTestsDone /\ UNCHANGED exceptCov
    \/ GenerateReport /\ UNCHANGED exceptCov
SpecRatios == InitR /\ [][NextR]_vars

\* one call of categorize_tests
InitK == InitCategorize /\ InitNormIdle /\ InitPairIdle /\ InitExtractIdle /\ InitReportIdle
NextK ==
    \/ Categorize /\ UNCHANGED exceptCov
SpecCategorize == InitK /\ [][NextK]_vars

(***************************************************************************)
(* Properties of the file-pair analysis (Spec)                             *)
(***************************************************************************)
Matched == analysis.matched_methods

\* the reference methods the matching loop has already handled
Processed == IF p_pc = "match" THEN 1..(p_i - 1) ELSE 1..Len(swift_methods)

NormOfCs(j) == normalize_test_name(csharp_methods[j].name)

\* candidates whose normalised name equals that of reference method i
EqualCands(i) ==
    {j \in 1..Len(csharp_methods) : NormOfCs(j) = normalize_test_name(swift_methods[i].name)}

\* candidates whose normalised name contains, or is contained in, that of reference method i
ContainCands(i) ==
    {j \in 1..Len(csharp_methods) :
        \/ Contains(NormOfCs(j), normalize_test_name(swift_methods[i].name))
        \/ Contains(normalize_test_name(swift_methods[i].name), NormOfCs(j))}

IsMatchedTo(i, j, tier) ==
    \E k \in 1..Len(Matched) :
        Matched[k] = [swift |-> swift_methods[i], csharp |-> csharp_methods[j],
                      match_type |-> tier]

IsUnmatched(i) ==
    \E k \in 1..Len(analysis.unmatched_swift) : analysis.unmatched_swift[k] = swift_methods[i]

\* C1: in one file-pair analysis no two entries of matched_methods refer to
\* the same target method.
C1_TargetClaimedAtMostOnce ==
    \A a, b \in 1..Len(Matched) : a # b => Matched[a].csharp # Matched[b].csharp

\* C3: the tiers are applied in fixed order over the candidates in declaration
\* order: an 'exact' match to the first candidate with an equal normalised name
\* if there is one (even when an earlier candidate matches by containment),
\* otherwise a 'partial' match to the first candidate passing the containment
\* test, otherwise no match.
C3_TierOrder ==
    \A i \in Processed :
        IF EqualCands(i) # {}
        THEN IsMatchedTo(i, Least(EqualCands(i)), "exact") /\ ~IsUnmatched(i)
        ELSE IF ContainCands(i) # {}
        THEN IsMatchedTo(i, Least(ContainCands(i)), "partial") /\ ~IsUnmatched(i)
        ELSE IsUnmatched(i) /\ \A k \in 1..Len(Matched) : Matched[k].swift # swift_methods[i]

\* C3 witness: an exact match to a later candidate although an earlier
\* candidate passes the containment test.
C3_Witness ==
    /\ p_pc = "done"
    /\ \E i \in 1..Len(swift_methods) :
          /\ EqualCands(i) # {}
          /\ Least(ContainCands(i)) < Least(EqualCands(i))
          /\ IsMatchedTo(i, Least(EqualCands(i)), "exact")

Names(ms) == [k \in 1..Len(ms) |-> ms[k].name]

Count(q, x) == Cardinality({k \in 1..Len(q) : q[k] = x})

MatchedSwift == [k \in 1..Len(Matched) |-> Matched[k].swift]

ClaimedNames == {Matched[k].csharp.name : k \in 1..Len(Matched)}

IsEndToEndScenario ==
    /\ Names(swift_methods) = <<<<"t", "e", "s", "t", "A">>, <<"t", "e", "s", "t", "B">>, <<"t", "e", "s", "t", "A", "s", "y", "n", "c", "C">>>>
    /\ Names(csharp_methods) = <<<<"T", "e", "s", "t", "A">>, <<"T", "e", "s", "t", "B", "E", "x", "t", "r", "a">>, <<"T", "e", "s", "t", "A", "s", "y", "n", "c", "C">>, <<"T", "e", "s", "t", "D">>>>

EndToEndResult ==
    /\ Matched = << [swift |-> swift_methods[1], csharp |-> csharp_methods[1],
                     match_type |-> "exact"],
                    [swift |-> swift_methods[2], csharp |-> csharp_methods[2],
                     match_type |-> "partial"],
                    [swift |-> swift_methods[3], csharp |-> csharp_methods[3],
                     match_type |-> "exact"] >>
    /\ analysis.unmatched_swift = <<>>
    /\ analysis.extra_csharp = <<csharp_methods[4]>>
    /\ analysis.coverage_stats.coverage_percentage = 1000
    /\ analysis.coverage_stats.enhancement_factor = 133

\* C6: the analysis partitions its inputs: every reference method appears
\* exactly once, in matched_methods or in unmatched_swift, and extra_csharp is
\* exactly the target methods, in declaration order, whose name no match
\* claimed; for [testA, testB, testAsyncC] against [TestA, TestBExtra,
\* TestAsyncC, TestD] the result is exact, partial, exact, nothing unmatched,
\* extra [TestD], coverage 100.0 and enhancement factor 1.33.
C6_Partition ==
    p_pc = "done" =>
        /\ \A i \in 1..Len(swift_methods) :
              Count(MatchedSwift, swift_methods[i])
                  + Count(analysis.unmatched_swift, swift_methods[i]) = 1
        /\ Len(Matched) + Len(analysis.unmatched_swift) = Len(swift_methods)
        /\ analysis.extra_csharp =
              SelectSeq(csharp_methods, LAMBDA m : m.name \notin ClaimedNames)
        /\ IsEndToEndScenario => EndToEndResult

\* C6 witness: the end-to-end scenario has been analysed.
C6_Witness == p_pc = "done" /\ IsEndToEndScenario /\ EndToEndResult

\* what the analysis of the reference method alone against the same target
\* list records for it
SoloOutcome(i) == find_matching_c_sharp_method(swift_methods[i], csharp_methods)

\* the entries of matched_methods for reference method i
EntriesOf(i) == {k \in 1..Len(Matched) : Matched[k].swift = swift_methods[i]}

\* C14: the match recorded for a reference method is the one it gets when it
\* is analysed alone against the target list, whatever reference methods
\* stand before it and whatever targets they have claimed.
C14_MatchIndependent ==
    \A i \in Processed :
        IF SoloOutcome(i) = None
        THEN EntriesOf(i) = {} /\ IsUnmatched(i)
        ELSE /\ Cardinality(EntriesOf(i)) = 1
             /\ \A k \in EntriesOf(i) :
                   /\ Matched[k].csharp = SoloOutcome(i).method
                   /\ Matched[k].match_type = SoloOutcome(i).match_type
             /\ ~IsUnmatched(i)

\* C14 witness: a reference method is matched to a target that an earlier
\* reference method has claimed, although an unclaimed target passes the
\* containment test
C14_Witness ==
    /\ p_pc = "done"
    /\ \E i, h \in 1..Len(swift_methods) : \E j, u \in 1..Len(csharp_methods) :
          /\ h < i
          /\ IsMatchedTo(h, j, "exact")
          /\ IsMatchedTo(i, j, "exact")
          /\ u # j
          /\ u \in ContainCands(i)
          /\ \A k \in 1..Len(Matched) : Matched[k].csharp # csharp_methods[u]

\* reference method i has an empty normalised name and there is a candidate,
\* or some candidate has an empty normalised name
EmptyNameInvolved(i) ==
    \/ normalize_test_name(swift_methods[i].name) = <<>> /\ Len(csharp_methods) > 0
    \/ \E j \in 1..Len(csharp_methods) : NormOfCs(j) = <<>>

\* C15: an empty normalised name matches everything: a reference method
\* whose normalised name is empty, with at least one candidate, or that faces
\* a candidate whose normalised name is empty, is never left unmatched; it is
\* recorded as matched, 'exact' or 'partial'.  With a target method named
\* "Test" in the file every reference method counts as covered.
C15_EmptyNameMatches ==
    /\ \A i \in Processed :
          EmptyNameInvolved(i) =>
              /\ ~IsUnmatched(i)
              /\ \E k \in 1..Len(Matched) :
                    /\ Matched[k].swift = swift_methods[i]
                    /\ Matched[k].match_type \in {"exact", "partial"}
    /\ (/\ p_pc = "done"
        /\ Len(swift_methods) > 0
        /\ \E j \in 1..Len(csharp_methods) : csharp_methods[j].name = <<"T", "e", "s", "t">>)
       => /\ analysis.unmatched_swift = <<>>
          /\ analysis.coverage_stats.coverage_percentage = 1000

\* C15 witness: the only target method is "Test", and reference methods with
\* a name that is not empty once normalised are matched to it as 'partial'
C15_Witness ==
    /\ p_pc = "done"
    /\ Len(csharp_methods) = 1
    /\ csharp_methods[1].name = <<"T", "e", "s", "t">>
    /\ Len(swift_methods) > 1
    /\ \A i \in 1..Len(swift_methods) :
          /\ normalize_test_name(swift_methods[i].name) # <<>>
          /\ IsMatchedTo(i, 1, "partial")
    /\ analysis.coverage_stats.coverage_percentage = 1000

(***************************************************************************)
(* Properties of normalize_test_name (SpecNorm)                            *)
(***************************************************************************)
\* the argument of the call in progress
NormArg == IF n_pass = 1 THEN n_in ELSE n_first

NormReturned == n_pc = "done"

NoAffixLeft(name) ==
    /\ ~StartsWith(name, s_test)
    /\ ~EndsWith(name, <<"t", "e", "s", "t">>)
    /\ ~EndsWith(name, <<"t", "e", "s", "t", "s">>)

\* C2 as stated: normalize_test_name(normalize_test_name(n)) =
\* normalize_test_name(n) for every name n.
C2_Idempotent ==
    (NormReturned /\ n_pass = 2) => n_name = n_first

\* C2 as amended: the second normalisation changes nothing when the first
\* result neither starts with "test" nor ends with "test" or "tests".
C2_IdempotentWithoutAffix ==
    (NormReturned /\ n_pass = 2 /\ NoAffixLeft(n_first)) => n_name = n_first

\* C2 witness: a name the first call changed, whose result has no affix left,
\* has been normalised twice.
C2_Witness ==
    /\ NormReturned /\ n_pass = 2
    /\ NoAffixLeft(n_first)
    /\ n_first # <<>>
    /\ n_first # n_in

RECURSIVE FirstMatchingSuffix(_, _)
\* the first suffix of the list, from k on, that name ends with; 0 if none
FirstMatchingSuffix(name, k) ==
    IF k > Len(Suffixes) THEN 0
    ELSE IF EndsWith(name, Suffixes[k]) THEN k
    ELSE FirstMatchingSuffix(name, k + 1)

\* name with the first matching suffix dropped, and nothing else
DropFirstMatchingSuffix(name) ==
    LET k == FirstMatchingSuffix(name, 1)
    IN  IF k = 0 THEN name ELSE SubSeq(name, 1, Len(name) - Len(Suffixes[k]))

\* C4: after lower-casing and dropping a leading "test" once, only the first
\* of "_test", "test", "_tests", "tests" that matches is dropped, exactly
\* once, before the underscores are deleted.
C4_AtMostOneSuffix ==
    (n_pc = "suffix" /\ n_k > Len(Suffixes)) =>
        n_name = DropFirstMatchingSuffix(StripTestPrefix(LowerName(NormArg)))

\* C5: a name that is exactly "test" or "tests", in any letter case, is
\* normalised to the empty string.
C5_TestOrTestsIsEmpty ==
    (NormReturned /\ LowerName(NormArg) \in {<<"t", "e", "s", "t">>, <<"t", "e", "s", "t", "s">>}) => n_name = <<>>

(***************************************************************************)
(* Properties of extract_detailed_test_methods (SpecExtract)               *)
(***************************************************************************)
\* a declaration has been handled and its record appended
MethodExtracted == match # NoMatch

\* the offset of the method's opening brace, len(content) if there is none
OpeningBrace ==
    IF is_swift THEN match.end - 1
    ELSE LET braces == {p \in match.end..(Len(content) - 1) : CharAt(content, p) = "{"}
         IN  IF braces = {} THEN Len(content) ELSE Least(braces)

\* opening minus closing braces among the offsets a .. e
Depth(a, e) ==
    Cardinality({p \in a..e : CharAt(content, p) = "{"})
        - Cardinality({p \in a..e : CharAt(content, p) = "}"})

\* the offsets at which the depth counted from the opening brace is zero
ClosingOffsets ==
    {e \in OpeningBrace..(Len(content) - 1) : Depth(OpeningBrace, e) = 0}

Balanced == ClosingOffsets # {}

LastRecord == methods[Len(methods)]

\* the declaration sites before offset p
SitesBefore(p) ==
    {q \in 0..(Min(p, Len(content)) - 1) : MatchAt(content, is_swift, q) # NoMatch}

NestedSource ==
    <<"D", " ", "{", " ", "i", "f", " ", "(", "a", ")", " ", "{", " ", "b", "(", ")",
      " ", "}", " ", "}">>

\* C8: when the braces of a declaration balance, the body runs from the
\* declaration start through the closing brace at which the depth, counted
\* from the opening brace, first returns to zero; for the source
\* "func testX() { if (a) { b() } }" the body is the whole text and
\* body_length is 1.
C8_BodyToMatchingBrace ==
    (MethodExtracted /\ Balanced) =>
        /\ method_body = Slice(content, match.start, Least(ClosingOffsets) + 1)
        /\ LastRecord.body_length = Newlines(method_body) + 1
        /\ (content = NestedSource /\ is_swift) =>
              (method_body = content /\ LastRecord.body_length = 1)

\* C8 witness: a body with a nested brace pair and text after its closing
\* brace has been extracted.
C8_Witness ==
    /\ MethodExtracted /\ Balanced
    /\ Least(ClosingOffsets) + 1 < Len(content)
    /\ \E p \in (OpeningBrace + 1)..Least(ClosingOffsets) : CharAt(content, p) = "{"
    /\ method_body = Slice(content, match.start, Least(ClosingOffsets) + 1)

\* C9 as stated: when the scan reaches the end of the text before the depth
\* returns to zero, exactly one record is emitted for the declaration and its
\* body is the text from the declaration start to the end of the text.
C9_UnbalancedBodyToEnd ==
    (MethodExtracted /\ ~Balanced) =>
        /\ Len(methods) = Cardinality(SitesBefore(e_from))
        /\ method_body = Slice(content, match.start, Len(content))

\* C9 as amended: in that case exactly one record is emitted for the
\* declaration; its body is, for Swift, the text from the declaration start up
\* to the opening brace (the brace excluded) and, for C#, the text from the
\* declaration start to 100 characters past the matched declaration, or to
\* the end of the text if that comes first.
C9_UnbalancedBodyTruncated ==
    (MethodExtracted /\ ~Balanced) =>
        /\ Len(methods) = Cardinality(SitesBefore(e_from))
        /\ LastRecord.body_length = Newlines(method_body) + 1
        /\ method_body =
              IF is_swift THEN Slice(content, match.start, OpeningBrace)
              ELSE Slice(content, match.start, Min(match.end + FallbackWindow, Len(content)))

\* C9 witness: a C# declaration whose brace never closes, followed by more
\* than 100 characters, has been extracted.
C9_Witness ==
    /\ MethodExtracted /\ ~Balanced /\ ~is_swift
    /\ OpeningBrace < Len(content)
    /\ match.end + FallbackWindow < Len(content)
    /\ Len(methods) = Cardinality(SitesBefore(e_from))
    /\ Len(method_body) = match.end + FallbackWindow - match.start

(***************************************************************************)
(* Properties of the ratios (SpecRatios)                                   *)
(***************************************************************************)
\* C7: a ratio with a zero denominator is 0: the file-pair analysis of an
\* empty reference list gives coverage_percentage 0 and enhancement_factor 0
\* whatever the target list, as does reference [A] against an empty target
\* list, and the overall coverage and enhancement figures of both reports
\* are 0 when the total reference method count is 0.
C7_ZeroDenominatorIsZero ==
    /\ (p_pc = "done" /\ swift_methods = <<>>) =>
           /\ analysis.coverage_stats.coverage_percentage = 0
           /\ analysis.coverage_stats.enhancement_factor = 0
    /\ (p_pc = "done" /\ Names(swift_methods) = <<<<"A">>>> /\ csharp_methods = <<>>) =>
           /\ analysis.coverage_stats.coverage_percentage = 0
           /\ analysis.coverage_stats.enhancement_factor = 0
    /\ (r_pc = "done" /\ total_coverage_stats.total_swift_methods = 0) =>
           /\ overall.overall_coverage = 0
           /\ overall.overall_enhancement = 0
    /\ (c_pc = "done" /\ TotalMethods(swift_tests) = 0) =>
           /\ report.coverage_percentage = 0
           /\ report.enhancement_factor = 0

\* C7 witness: an empty reference list has been analysed against a target
\* list that is not empty.
C7_Witness ==
    /\ p_pc = "done"
    /\ swift_methods = <<>>
    /\ csharp_methods # <<>>
    /\ analysis.coverage_stats.coverage_percentage = 0
    /\ analysis.coverage_stats.enhancement_factor = 0

(***************************************************************************)
(* Properties of the coverage analyser (SpecCoverage)                      *)
(***************************************************************************)
\* the reference files of a category that have a target file of the same stem
HasCounterpart(f, category) ==
    \E g \in FilesOf(csharp_tests, category) : StemId(g) = StemId(f)

\* C10: a category is reported complete only if every reference file in it
\* has a target counterpart and its target method count is at least its
\* reference method count; missing if it has reference files and no target
\* file at all; partial in every other case.
C10_CategoryStatus ==
    c_pc = "done" =>
        \A c \in DOMAIN report.status :
            LET all_covered == \A f \in FilesOf(swift_tests, c) : HasCounterpart(f, c)
                enough == MethodCount(csharp_tests, c) >= MethodCount(swift_tests, c)
                none == FilesOf(swift_tests, c) # {} /\ FilesOf(csharp_tests, c) = {}
            IN  report.status[c] =
                    IF all_covered /\ enough THEN "COMPLETE"
                    ELSE IF none THEN "MISSING"
                    ELSE "PARTIAL"

\* the entries of c_sharp_enhancements for a category
EnhancementsOf(c) ==
    {k \in 1..Len(missing_coverage.c_sharp_enhancements) :
        missing_coverage.c_sharp_enhancements[k].category = c}

\* csharp_total / swift_total, in hundredths, or infinity without reference methods
RatioOf(c) ==
    IF MethodCount(swift_tests, c) > 0
    THEN RoundRatio(MethodCount(csharp_tests, c) * 100, MethodCount(swift_tests, c))
    ELSE Infinity

\* C11: every category whose target method count strictly exceeds its
\* reference method count has an entry in c_sharp_enhancements that carries
\* its ratio, a category with target methods and no reference methods
\* included.
C11_EnhancementsReported ==
    c_pc = "done" =>
        \A c \in CategoriesOf(csharp_tests) :
            MethodCount(csharp_tests, c) > MethodCount(swift_tests, c) =>
                \E k \in EnhancementsOf(c) :
                    missing_coverage.c_sharp_enhancements[k].enhancement_factor = RatioOf(c)

\* the entries of missing_categories for a category
MissingCategoryEntries(c) ==
    {k \in 1..Len(missing_coverage.missing_categories) :
        missing_coverage.missing_categories[k].category = c}

\* the entries of missing_files for a file
MissingFileEntries(f) ==
    {k \in 1..Len(missing_coverage.missing_files) :
        missing_coverage.missing_files[k].file = f}

\* the reference files that no target file of their category matches by stem
WithoutCounterpart ==
    {f \in DOMAIN swift_tests : ~HasCounterpart(f, CategoryOf(f))}

\* the file is listed under some entry of missing_categories
InMissingCategories(f) ==
    \E k \in 1..Len(missing_coverage.missing_categories) :
        \E m \in 1..Len(missing_coverage.missing_categories[k].files) :
            missing_coverage.missing_categories[k].files[m] = f

\* C12: a reference file without target counterpart gives exactly one missing
\* entry with the right count: when its category has no target file, one
\* missing_categories entry whose test_count is the category's reference
\* method total, and no missing_files entry; otherwise one missing_files
\* entry whose missing_methods is the file's own method count, and no
\* missing_categories entry.
C12_OneMissingEntry ==
    c_pc = "done" =>
        \A f \in WithoutCounterpart :
            LET c == CategoryOf(f)
            IN  IF FilesOf(csharp_tests, c) = {}
                THEN /\ Cardinality(MissingCategoryEntries(c)) = 1
                     /\ \A k \in MissingCategoryEntries(c) :
                           missing_coverage.missing_categories[k].test_count
                               = MethodCount(swift_tests, c)
                     /\ InMissingCategories(f)
                     /\ MissingFileEntries(f) = {}
                ELSE /\ Cardinality(MissingFileEntries(f)) = 1
                     /\ \A k \in MissingFileEntries(f) :
                           /\ missing_coverage.missing_files[k].missing_methods = swift_tests[f]
                           /\ missing_coverage.missing_files[k].category = c
                     /\ ~InMissingCategories(f)
                     /\ MissingCategoryEntries(c) = {}

\* both cases at once: a category without any target file whose two
\* reference methods are counted, and two files missing in a category that
\* has a target file
C12_Witness ==
    /\ c_pc = "done"
    /\ \E f \in WithoutCounterpart :
          /\ FilesOf(csharp_tests, CategoryOf(f)) = {}
          /\ MethodCount(swift_tests, CategoryOf(f)) = 2
          /\ Cardinality(MissingCategoryEntries(CategoryOf(f))) = 1
    /\ \E f, g \in WithoutCounterpart :
          /\ f # g
          /\ CategoryOf(f) = CategoryOf(g)
          /\ FilesOf(csharp_tests, CategoryOf(f)) # {}
          /\ MissingFileEntries(f) # {} /\ MissingFileEntries(g) # {}

(***************************************************************************)
(* Properties of categorize_tests (SpecCategorize)                         *)
(***************************************************************************)
\* the fixed keyword list, in its order
KeywordOrder == <<"contract", "crypto", "protocol", "script", "serialization",
                  "transaction", "types", "wallet", "witnessrule", "helpers", "core">>

\* the characters of a keyword
KeywordChars(key) ==
    Categories[CHOOSE k \in 1..Len(Categories) : Categories[k].key = key].chars

\* the places in the list of the keywords that occur in the path, case ignored
KeywordsIn(path) ==
    {k \in 1..Len(KeywordOrder) :
        /\ \E j \in 1..Len(Categories) : Categories[j].key = KeywordOrder[k]
        /\ Contains(LowerName(path), KeywordChars(KeywordOrder[k]))}

\* the categories the result files the path under
CategoriesHolding(path) ==
    {c \in DOMAIN report.categorized : path \in DOMAIN report.categorized[c]}

\* C13: categorize_tests files every path under exactly one category, the
\* first keyword of the ordered list that occurs in the path whatever the
\* case, or "other" when none occurs; a path with both "contract" and
\* "crypto" in it goes to "contract".
C13_FirstKeywordWins ==
    c_pc = "categorized" =>
        /\ Len(Categories) = Len(KeywordOrder)
        /\ \A p \in DOMAIN swift_tests :
              /\ CategoriesHolding(p) =
                    {IF KeywordsIn(p) = {} THEN "other"
                     ELSE KeywordOrder[Least(KeywordsIn(p))]}
              /\ \A c \in CategoriesHolding(p) : report.categorized[c][p] = swift_tests[p]
              /\ ({1, 2} \subseteq KeywordsIn(p) => CategoriesHolding(p) = {"contract"})

\* one path with "crypto" before "contract" in it filed under contract, the
\* other path without any keyword filed under other
C13_Witness ==
    /\ c_pc = "categorized"
    /\ \E p, q \in DOMAIN swift_tests :
          /\ p = <<"C", "r", "y", "p", "t", "o", "c", "o", "n", "t", "r", "a", "c", "t">>
          /\ CategoriesHolding(p) = {"contract"}
          /\ KeywordsIn(q) = {}
          /\ CategoriesHolding(q) = {"other"}

====
